---------------------------- MODULE Spec2Model ----------------------------
(***************************************************************************)
(* Model of the refactor workflow of terraform-automation-bot:             *)
(*   - formatDiff (src/index.js), the positional two-cursor line diff;     *)
(*   - refactorFile (src/refactor.js), the suggestion provider wrapper;    *)
(*   - readTfFiles (src/utils/files.js), the discovery of the .tf files;   *)
(*   - analyzeAndRefactor (src/index.js), the per-file session loop and    *)
(*     the report it writes;                                               *)
(*   - analyzeAndRefactor (src/analyze.js), the variant without prompts;   *)
(*   - deployTerraform and destroyTerraform (src/index.js).                *)
(*                                                                         *)
(* A text is a sequence of pieces: NL, the line terminator, or a string    *)
(* without line terminator (one character, or a fixed message of the       *)
(* source).  A rendered diff line  colour(prefix + line) + "\n"  is the    *)
(* record [kind, text], kind being the prefix: "  " Unchanged,             *)
(* "- " Removed, "+ " Added.                                               *)
(***************************************************************************)
EXTENDS Integers, Sequences, FiniteSets, TLC

VARIABLES
    \* ---- formatDiff stepped as a loop
    oldContent,   \* argument oldContent
    newContent,   \* argument newContent
    oldLines,     \* const oldLines = oldContent.split("\n")
    newLines,     \* const newLines = newContent.split("\n")
    i,            \* cursor into oldLines (0-based, as in the source)
    j,            \* cursor into newLines (0-based)
    diffOutput,   \* the lines emitted so far
    dpc,          \* "idle" | "loop" | "done"
    reapplied,    \* TRUE once the proposed content has been applied and the diff re-run
    \* ---- readTfFiles
    dir,          \* what the directory holds: [ok, entries], ok FALSE when readdir fails
    \* ---- analyzeAndRefactor
    files,        \* const files = await readTfFiles(dir): sequence of [path, content]
    changes,      \* let changes = []: sequence of [file, diff, suggestion]; file is the
                  \* position in `files` of the object the record refers to
    idx,          \* position of the for-of loop in `files` (1-based), 0 before the loop
    suggestion,   \* const suggestion = await refactorFile(file, prompt), or NoValue
    pc,           \* "read" | "refactor" | "awaitQ" | "diff" | "prompt" | "report" | "done"
    report,       \* the report text built at lines 197-202, <<>> before
    saved,        \* outcome of mkdir/writeFile: "none" | "saved" | "failed"
    \* ---- history of the session (not program state)
    orig,         \* the contents readTfFiles returned
    answers,      \* the outcome of each prompt so far: "accept" | "skip" | "cancel"
    failed,       \* positions of the files whose refactorFile took the catch branch
    trace,        \* the steps taken so far, as <<step, position of the file>>
    outstanding,  \* positions of the files whose askAmazonQ call has not settled yet
    \* ---- analyzeAndRefactor of analyze.js
    results,      \* the refactorFile results collected by Promise.all
    \* ---- deployTerraform and destroyTerraform
    tfOp,           \* the operation chosen in the menu: "deploy" or "destroy"
    tfpc,           \* position in the operation
    checkTerraform, \* const checkTerraform
    install,        \* answer to the install prompt
    proceed,        \* answer to the proceed prompt
    execLog,        \* the commands passed to exec, in call order
    ended           \* the deploy or destroy commands whose callback ran, with err

diffVars == <<oldContent, newContent, oldLines, newLines, i, j, diffOutput, dpc, reapplied>>

sessVars ==
    <<dir, files, changes, idx, suggestion, pc, report, saved, orig, answers, failed, trace,
      outstanding, results>>

tfVars == <<tfOp, tfpc, checkTerraform, install, proceed, execLog, ended>>

vars == <<diffVars, sessVars, tfVars>>

\* neither deployTerraform nor destroyTerraform is running
TfIdle ==
    /\ tfOp = "none"
    /\ tfpc = "off"
    /\ checkTerraform = FALSE
    /\ install = "none"
    /\ proceed = "none"
    /\ execLog = <<>>
    /\ ended = <<>>

-----------------------------------------------------------------------------
(* Bounds *)

MaxLines == 3

MaxFiles == 2

-----------------------------------------------------------------------------
(* Texts *)

NL == "\n"

\* a variable that holds no value yet (undefined)
NoValue == "none"

\* The lines the old and the new side are built from: the empty line and
\* one-character lines.  "x" occurs only in new texts.
OldLineSet == {<<>>, <<"a">>, <<"b">>, <<"c">>}
NewLineSet == {<<>>, <<"a">>, <<"b">>, <<"c">>, <<"x">>}

RECURSIVE Join(_)
\* lines.join("\n"): the text whose split is `lines` (lines is non-empty)
Join(lines) ==
    IF Len(lines) = 1 THEN lines[1]
    ELSE lines[1] \o <<NL>> \o Join(Tail(lines))

TextsOver(lineSet, n) ==
    { Join(ls) : ls \in UNION { [1..k -> lineSet] : k \in 1..n } }

OldTexts == TextsOver(OldLineSet, MaxLines)
NewTexts == TextsOver(NewLineSet, MaxLines)

\* index of the first NL of s, 0 if there is none
FirstNL(s) ==
    IF \E k \in 1..Len(s) : s[k] = NL
    THEN CHOOSE k \in 1..Len(s) : s[k] = NL /\ \A m \in 1..(k-1) : s[m] # NL
    ELSE 0

RECURSIVE Split(_)
\* String.prototype.split("\n"): the pieces between the terminators; a text
\* without terminator, the empty text included, is one piece.
Split(s) ==
    IF FirstNL(s) = 0 THEN <<s>>
    ELSE <<SubSeq(s, 1, FirstNL(s) - 1)>> \o Split(SubSeq(s, FirstNL(s) + 1, Len(s)))

-----------------------------------------------------------------------------
(* formatDiff *)

DiffLine(kind, text) == [kind |-> kind, text |-> text]

\* DiffIter with the Unchanged branch advancing only the old cursor
DiffIterKeepsJ(oL, nL, st) ==
    IF st.i < Len(oL) /\ st.j < Len(nL) /\ oL[st.i + 1] = nL[st.j + 1]
    THEN [i |-> st.i + 1, j |-> st.j,
          out |-> Append(st.out, DiffLine("Unchanged", oL[st.i + 1]))]
    ELSE LET s1 == IF st.i < Len(oL)
                   THEN [st EXCEPT !.out = Append(@, DiffLine("Removed", oL[st.i + 1])),
                                   !.i = @ + 1]
                   ELSE st
             s2 == IF s1.j < Len(nL)
                   THEN [s1 EXCEPT !.out = Append(@, DiffLine("Added", nL[s1.j + 1])),
                                   !.j = @ + 1]
                   ELSE s1
         IN s2

\* DiffIter with the second `if` of the else branch turned into `else if`
DiffIterElseIf(oL, nL, st) ==
    IF st.i < Len(oL) /\ st.j < Len(nL) /\ oL[st.i + 1] = nL[st.j + 1]
    THEN [i |-> st.i + 1, j |-> st.j + 1,
          out |-> Append(st.out, DiffLine("Unchanged", oL[st.i + 1]))]
    ELSE IF st.i < Len(oL)
         THEN [st EXCEPT !.out = Append(@, DiffLine("Removed", oL[st.i + 1])),
                         !.i = @ + 1]
         ELSE [st EXCEPT !.out = Append(@, DiffLine("Added", nL[st.j + 1])),
                         !.j = @ + 1]

\* DiffIter advancing the new cursor without emitting the Added line
DiffIterDropsAdded(oL, nL, st) ==
    IF st.i < Len(oL) /\ st.j < Len(nL) /\ oL[st.i + 1] = nL[st.j + 1]
    THEN [i |-> st.i + 1, j |-> st.j + 1,
          out |-> Append(st.out, DiffLine("Unchanged", oL[st.i + 1]))]
    ELSE LET s1 == IF st.i < Len(oL)
                   THEN [st EXCEPT !.out = Append(@, DiffLine("Removed", oL[st.i + 1])),
                                   !.i = @ + 1]
                   ELSE st
             s2 == IF s1.j < Len(nL)
                   THEN IF st.i < Len(oL)
                        THEN [s1 EXCEPT !.j = @ + 1]
                        ELSE [s1 EXCEPT !.out = Append(@, DiffLine("Added", nL[s1.j + 1])),
                                        !.j = @ + 1]
                   ELSE s1
         IN s2

\* DiffIter advancing the old cursor in the else branch without the range test
DiffIterOverruns(oL, nL, st) ==
    IF st.i < Len(oL) /\ st.j < Len(nL) /\ oL[st.i + 1] = nL[st.j + 1]
    THEN [i |-> st.i + 1, j |-> st.j + 1,
          out |-> Append(st.out, DiffLine("Unchanged", oL[st.i + 1]))]
    ELSE LET s1 == IF st.i < Len(oL)
                   THEN [st EXCEPT !.out = Append(@, DiffLine("Removed", oL[st.i + 1])),
                                   !.i = @ + 1]
                   ELSE [st EXCEPT !.i = @ + 1]
             s2 == IF s1.j < Len(nL)
                   THEN [s1 EXCEPT !.out = Append(@, DiffLine("Added", nL[s1.j + 1])),
                                   !.j = @ + 1]
                   ELSE s1
         IN s2

\* One iteration of the while loop, on the loop state st = [i, j, out].
DiffIter(oL, nL, st) ==
    IF st.i < Len(oL) /\ st.j < Len(nL) /\ oL[st.i + 1] = nL[st.j + 1]
    THEN [i |-> st.i + 1, j |-> st.j + 1,
          out |-> Append(st.out, DiffLine("Unchanged", oL[st.i + 1]))]
    ELSE LET s1 == IF st.i < Len(oL)
                   THEN [st EXCEPT !.out = Append(@, DiffLine("Removed", oL[st.i + 1])),
                                   !.i = @ + 1]
                   ELSE st
             s2 == IF s1.j < Len(nL)
                   THEN [s1 EXCEPT !.out = Append(@, DiffLine("Added", nL[s1.j + 1])),
                                   !.j = @ + 1]
                   ELSE s1
         IN s2

\* the loop condition
DiffMore(oL, nL, st) == st.i < Len(oL) \/ st.j < Len(nL)

RECURSIVE DiffLoop(_, _, _)
DiffLoop(oL, nL, st) ==
    IF DiffMore(oL, nL, st) THEN DiffLoop(oL, nL, DiffIter(oL, nL, st)) ELSE st.out

\* formatDiff(oldContent, newContent) as a function of its arguments
formatDiff(old, new) ==
    DiffLoop(Split(old), Split(new), [i |-> 0, j |-> 0, out |-> <<>>])

-----------------------------------------------------------------------------
(* readTfFiles *)

\* what a session's files hold
FileContents == { <<>>, <<"a">>, <<"a", NL>> }

\* A directory entry: whether its name ends in ".tf", what fs.stat answers
\* ("file", "dir", or "error" when it rejects), whether fs.readFile succeeds and
\* the content it returns.
DirEntry(ext, stat, readOk, content) ==
    [ext |-> ext, stat |-> stat, readOk |-> readOk, content |-> content]

Entries ==
    { DirEntry(".tf", "file", TRUE, c) : c \in FileContents }
    \cup { DirEntry(".tf", "file", FALSE, <<>>),
           DirEntry(".tf", "dir", TRUE, <<>>),
           DirEntry(".txt", "file", TRUE, <<>>),
           DirEntry(".tf", "error", TRUE, <<>>) }

\* the directory before it is looked at
NoDir == [ok |-> TRUE, entries |-> <<>>]

\* the directories: one that readdir fails on, and those of up to MaxFiles entries
Dirs ==
    { [ok |-> FALSE, entries |-> <<>>] }
    \cup { [ok |-> TRUE, entries |-> es] : es \in UNION { [1..n -> Entries] : n \in 0..MaxFiles } }

RECURSIVE ReadLoop(_, _, _)
\* lines 13-22: the for-of loop over the listing from entry k on, `acc` being
\* the files pushed so far; threw is TRUE when stat or readFile rejected.  The
\* path of a file is the position of its entry in the listing.
ReadLoop(entries, k, acc) ==
    IF k > Len(entries) THEN [threw |-> FALSE, files |-> acc]
    ELSE IF entries[k].stat = "error" THEN [threw |-> TRUE, files |-> acc]
    ELSE IF entries[k].stat = "file" /\ entries[k].ext = ".tf"
         THEN IF entries[k].readOk
              THEN ReadLoop(entries, k + 1,
                            Append(acc, [path |-> k, content |-> entries[k].content]))
              ELSE [threw |-> TRUE, files |-> acc]
         ELSE ReadLoop(entries, k + 1, acc)

\* readTfFiles returning, from its catch, the files read before the failure
readTfFilesKeepsPartial(d) ==
    IF ~d.ok THEN <<>> ELSE ReadLoop(d.entries, 1, <<>>).files

\* readTfFiles(dir): the files, or [] from the catch
readTfFiles(d) ==
    IF ~d.ok THEN <<>>
    ELSE LET r == ReadLoop(d.entries, 1, <<>>)
         IN IF r.threw THEN <<>> ELSE r.files

-----------------------------------------------------------------------------
(* formatDiff, one loop iteration per step *)

DiffInit ==
    /\ oldContent \in OldTexts
    /\ newContent \in NewTexts
    /\ oldLines = <<>>
    /\ newLines = <<>>
    /\ i = 0
    /\ j = 0
    /\ diffOutput = <<>>
    /\ dpc = "idle"
    /\ reapplied = FALSE
    /\ dir = NoDir
    /\ files = <<>>
    /\ changes = <<>>
    /\ idx = 0
    /\ suggestion = NoValue
    /\ pc = "off"
    /\ report = <<>>
    /\ saved = "none"
    /\ orig = <<>>
    /\ answers = <<>>
    /\ failed = {}
    /\ trace = <<>>
    /\ outstanding = {}
    /\ results = <<>>
    /\ TfIdle

\* lines 46-51: split both arguments, reset the cursors
DiffEnter ==
    /\ dpc = "idle"
    /\ oldLines' = Split(oldContent)
    /\ newLines' = Split(newContent)
    /\ i' = 0
    /\ j' = 0
    /\ diffOutput' = <<>>
    /\ dpc' = "loop"
    /\ UNCHANGED <<oldContent, newContent, reapplied>>
    /\ UNCHANGED <<sessVars, tfVars>>

\* lines 53-72: one iteration
DiffStep ==
    /\ dpc = "loop"
    /\ DiffMore(oldLines, newLines, [i |-> i, j |-> j, out |-> diffOutput])
    /\ LET st == DiffIter(oldLines, newLines, [i |-> i, j |-> j, out |-> diffOutput])
       IN /\ i' = st.i
          /\ j' = st.j
          /\ diffOutput' = st.out
    /\ UNCHANGED <<oldContent, newContent, oldLines, newLines, dpc, reapplied>>
    /\ UNCHANGED <<sessVars, tfVars>>

\* line 53 false, line 73: return diffOutput
DiffReturn ==
    /\ dpc = "loop"
    /\ ~DiffMore(oldLines, newLines, [i |-> i, j |-> j, out |-> diffOutput])
    /\ dpc' = "done"
    /\ UNCHANGED <<oldContent, newContent, oldLines, newLines, i, j, diffOutput, reapplied>>
    /\ UNCHANGED <<sessVars, tfVars>>

\* line 182, file.content = suggestion.suggestion, followed by a second call
\* of formatDiff on the file's content and the same proposed content
ApplyAndRediff ==
    /\ dpc = "done"
    /\ ~reapplied
    /\ oldContent' = newContent
    /\ reapplied' = TRUE
    /\ dpc' = "idle"
    /\ UNCHANGED <<newContent, oldLines, newLines, i, j, diffOutput>>
    /\ UNCHANGED <<sessVars, tfVars>>

DiffNext == DiffEnter \/ DiffStep \/ DiffReturn \/ ApplyAndRediff

DiffSpec == DiffInit /\ [][DiffNext]_vars

\* The loop under weak fairness: a started call keeps running.  Its inputs
\* are the texts over three line values a side.
LiveOldLineSet == {<<>>, <<"a">>, <<"b">>}
LiveNewLineSet == {<<>>, <<"a">>, <<"x">>}

DiffLiveInit ==
    /\ oldContent \in TextsOver(LiveOldLineSet, MaxLines)
    /\ newContent \in TextsOver(LiveNewLineSet, MaxLines)
    /\ oldLines = <<>>
    /\ newLines = <<>>
    /\ i = 0
    /\ j = 0
    /\ diffOutput = <<>>
    /\ dpc = "idle"
    /\ reapplied = FALSE
    /\ dir = NoDir
    /\ files = <<>>
    /\ changes = <<>>
    /\ idx = 0
    /\ suggestion = NoValue
    /\ pc = "off"
    /\ report = <<>>
    /\ saved = "none"
    /\ orig = <<>>
    /\ answers = <<>>
    /\ failed = {}
    /\ trace = <<>>
    /\ outstanding = {}
    /\ results = <<>>
    /\ TfIdle

DiffLive == DiffLiveInit /\ [][DiffNext]_vars /\ WF_vars(DiffNext)

-----------------------------------------------------------------------------
(* refactorFile *)

\* what `q chat` may print
Stdouts == { <<NL>>, <<"a", NL>>, <<"a", NL, "x">> }

IsSpace(c) == c \in {NL, " "}

RECURSIVE TrimStart(_)
TrimStart(s) ==
    IF s # <<>> /\ IsSpace(Head(s)) THEN TrimStart(Tail(s)) ELSE s

RECURSIVE TrimEnd(_)
TrimEnd(s) ==
    IF s # <<>> /\ IsSpace(s[Len(s)]) THEN TrimEnd(SubSeq(s, 1, Len(s) - 1)) ELSE s

\* String.prototype.trim()
Trim(s) == TrimEnd(TrimStart(s))

\* the messages of the errors refactorFile catches
MsgInvalidContent == <<"File content is undefined or invalid">>
MsgNotInstalled == <<"Amazon Q CLI ('q') is not installed or not in PATH. Install it from https://docs.aws.amazon.com/q/developer/latest/userguide/install-cli.html">>
MsgFailedToRun(stderr) == <<"Failed to run 'q chat': ">> \o stderr

\* stderr || err.message of a failed `q chat`
ExecErrors == { <<"e", NL>> }

\* the messages askAmazonQ rejects with
QFailures == {MsgNotInstalled} \cup { MsgFailedToRun(e) : e \in ExecErrors }

ErrorMarker(msg) == <<"Error during refactoring: ">> \o msg

\* { ...file, suggestion }
SuggestionFor(file, text) ==
    [path |-> file.path, content |-> file.content, suggestion |-> text]

-----------------------------------------------------------------------------
(* analyzeAndRefactor *)

Timestamps == {"t1", "t2"}

Step(name) == <<name, idx>>

Init ==
    /\ oldContent = <<>>
    /\ newContent = <<>>
    /\ oldLines = <<>>
    /\ newLines = <<>>
    /\ i = 0
    /\ j = 0
    /\ diffOutput = <<>>
    /\ dpc = "off"
    /\ reapplied = FALSE
    /\ dir = NoDir
    /\ files = <<>>
    /\ changes = <<>>
    /\ idx = 0
    /\ suggestion = NoValue
    /\ pc = "read"
    /\ report = <<>>
    /\ saved = "none"
    /\ orig = <<>>
    /\ answers = <<>>
    /\ failed = {}
    /\ trace = <<>>
    /\ outstanding = {}
    /\ results = <<>>
    /\ TfIdle

\* ReadFiles without the return of lines 133-140
ReadFilesNoEmptyReturn ==
    /\ pc = "read"
    /\ \E d \in Dirs :
          /\ dir' = d
          /\ files' = readTfFiles(d)
          /\ orig' = [k \in 1..Len(readTfFiles(d)) |-> readTfFiles(d)[k].content]
          /\ IF Len(readTfFiles(d)) = 0
             THEN pc' = "report" /\ idx' = 0
             ELSE pc' = "refactor" /\ idx' = 1
    /\ UNCHANGED <<changes, suggestion, report, saved, answers, failed, trace>>
    /\ UNCHANGED <<outstanding, results, diffVars, tfVars>>

\* lines 130-140: load the files; return if there are none
ReadFiles ==
    /\ pc = "read"
    /\ \E d \in Dirs :
          /\ dir' = d
          /\ files' = readTfFiles(d)
          /\ orig' = [k \in 1..Len(readTfFiles(d)) |-> readTfFiles(d)[k].content]
          /\ IF Len(readTfFiles(d)) = 0
             THEN pc' = "done" /\ idx' = 0
             ELSE pc' = "refactor" /\ idx' = 1
    /\ UNCHANGED <<changes, suggestion, report, saved, answers, failed, trace>>
    /\ UNCHANGED <<outstanding, results, diffVars, tfVars>>

\* RefactorCall without the content test of refactor.js 119-121
RefactorCallNoContentTest ==
    /\ pc = "refactor"
    /\ trace' = trace \o <<Step("refactorFile"), Step("askAmazonQ")>>
    /\ pc' = "awaitQ"
    /\ UNCHANGED <<files, changes, idx, suggestion, report, saved, orig, answers, failed>>
    /\ outstanding' = outstanding \cup {idx}
    /\ UNCHANGED <<dir, results, diffVars, tfVars>>

\* line 151 and refactor.js 117-124: call refactorFile; empty content throws
\* inside the try and the catch returns the marker, otherwise `q chat` is asked
RefactorCall ==
    /\ pc = "refactor"
    /\ IF files[idx].content = <<>>
       THEN /\ suggestion' = SuggestionFor(files[idx], ErrorMarker(MsgInvalidContent))
            /\ failed' = failed \cup {idx}
            /\ trace' = trace \o <<Step("refactorFile"), Step("suggestion")>>
            /\ pc' = "diff"
       ELSE /\ trace' = trace \o <<Step("refactorFile"), Step("askAmazonQ")>>
            /\ pc' = "awaitQ"
            /\ UNCHANGED <<suggestion, failed>>
    /\ UNCHANGED <<files, changes, idx, report, saved, orig, answers>>
    /\ outstanding' = IF files[idx].content = <<>> THEN outstanding ELSE outstanding \cup {idx}
    /\ UNCHANGED <<dir, results, diffVars, tfVars>>

\* refactor.js 106, 126-131: `q chat` printed stdout; the suggestion is stdout.trim()
ProviderSucceeds ==
    /\ pc = "awaitQ"
    /\ \E out \in Stdouts :
          suggestion' = SuggestionFor(files[idx], Trim(out))
    /\ trace' = Append(trace, Step("suggestion"))
    /\ pc' = "diff"
    /\ UNCHANGED <<files, changes, idx, report, saved, orig, answers, failed>>
    /\ outstanding' = outstanding \ {idx}
    /\ UNCHANGED <<dir, results, diffVars, tfVars>>

\* ProviderFails without the catch: the rejection leaves the session
ProviderFailsUncaught ==
    /\ pc = "awaitQ"
    /\ failed' = failed \cup {idx}
    /\ pc' = "done"
    /\ UNCHANGED <<files, changes, idx, suggestion, report, saved, orig, answers, trace>>
    /\ outstanding' = outstanding \ {idx}
    /\ UNCHANGED <<dir, results, diffVars, tfVars>>

\* refactor.js 132-138: askAmazonQ rejected; the catch returns the error marker
ProviderFails ==
    /\ pc = "awaitQ"
    /\ \E msg \in QFailures :
          suggestion' = SuggestionFor(files[idx], ErrorMarker(msg))
    /\ failed' = failed \cup {idx}
    /\ trace' = Append(trace, Step("suggestion"))
    /\ pc' = "diff"
    /\ UNCHANGED <<files, changes, idx, report, saved, orig, answers>>
    /\ outstanding' = outstanding \ {idx}
    /\ UNCHANGED <<dir, results, diffVars, tfVars>>

\* ComputeDiffAndRecord without the push of line 155
ComputeDiffNoRecord ==
    /\ pc = "diff"
    /\ trace' = trace \o <<Step("diff"), Step("prompt")>>
    /\ pc' = "prompt"
    /\ UNCHANGED <<files, changes, idx, suggestion, report, saved, orig, answers, failed>>
    /\ UNCHANGED outstanding
    /\ UNCHANGED <<dir, results, diffVars, tfVars>>

\* ComputeDiffAndRecord with the arguments of formatDiff exchanged
ComputeDiffSwapped ==
    /\ pc = "diff"
    /\ changes' = Append(changes,
                         [file |-> idx,
                          diff |-> formatDiff(suggestion.suggestion, files[idx].content),
                          suggestion |-> suggestion])
    /\ trace' = trace \o <<Step("diff"), Step("record"), Step("prompt")>>
    /\ pc' = "prompt"
    /\ UNCHANGED <<files, idx, suggestion, report, saved, orig, answers, failed>>
    /\ UNCHANGED outstanding
    /\ UNCHANGED <<dir, results, diffVars, tfVars>>

\* lines 154-179: compute the diff, push the change, show it, open the prompt
ComputeDiffAndRecord ==
    /\ pc = "diff"
    /\ changes' = Append(changes,
                         [file |-> idx,
                          diff |-> formatDiff(files[idx].content, suggestion.suggestion),
                          suggestion |-> suggestion])
    /\ trace' = trace \o <<Step("diff"), Step("record"), Step("prompt")>>
    /\ pc' = "prompt"
    /\ UNCHANGED <<files, idx, suggestion, report, saved, orig, answers, failed>>
    /\ UNCHANGED outstanding
    /\ UNCHANGED <<dir, results, diffVars, tfVars>>

\* line 146/189: the for-of loop moves to the next file or ends
NextFile ==
    IF idx < Len(files)
    THEN idx' = idx + 1 /\ pc' = "refactor"
    ELSE idx' = idx /\ pc' = "report"

\* AcceptChanges without the assignment of line 182
AcceptChangesNoWrite ==
    /\ pc = "prompt"
    /\ answers' = Append(answers, "accept")
    /\ trace' = Append(trace, Step("apply"))
    /\ NextFile
    /\ UNCHANGED <<files, changes, suggestion, report, saved, orig, failed>>
    /\ UNCHANGED outstanding
    /\ UNCHANGED <<dir, results, diffVars, tfVars>>

\* lines 181-185: the prompt answered true
AcceptChanges ==
    /\ pc = "prompt"
    /\ files' = [files EXCEPT ![idx].content = suggestion.suggestion]
    /\ answers' = Append(answers, "accept")
    /\ trace' = Append(trace, Step("apply"))
    /\ NextFile
    /\ UNCHANGED <<changes, suggestion, report, saved, orig, failed>>
    /\ UNCHANGED outstanding
    /\ UNCHANGED <<dir, results, diffVars, tfVars>>

\* lines 186-188: the prompt answered false
SkipChanges ==
    /\ pc = "prompt"
    /\ answers' = Append(answers, "skip")
    /\ trace' = Append(trace, Step("skip"))
    /\ NextFile
    /\ UNCHANGED <<files, changes, suggestion, report, saved, orig, failed>>
    /\ UNCHANGED outstanding
    /\ UNCHANGED <<dir, results, diffVars, tfVars>>

\* PromptCancelled taking the prompt's initial choice ("Yes, apply")
PromptCancelledApplies ==
    /\ pc = "prompt"
    /\ files' = [files EXCEPT ![idx].content = suggestion.suggestion]
    /\ answers' = Append(answers, "cancel")
    /\ trace' = Append(trace, Step("apply"))
    /\ NextFile
    /\ UNCHANGED <<changes, suggestion, report, saved, orig, failed>>
    /\ UNCHANGED outstanding
    /\ UNCHANGED <<dir, results, diffVars, tfVars>>

\* lines 168-188: the prompt was cancelled; prompts resolves to an object
\* without `apply`, confirm.apply is undefined and the else branch runs
PromptCancelled ==
    /\ pc = "prompt"
    /\ answers' = Append(answers, "cancel")
    /\ trace' = Append(trace, Step("skip"))
    /\ NextFile
    /\ UNCHANGED <<files, changes, suggestion, report, saved, orig, failed>>
    /\ UNCHANGED outstanding
    /\ UNCHANGED <<dir, results, diffVars, tfVars>>

\* BuildReport putting each section in front of the earlier ones
BuildReportNewestFirst(ts, chs, fs) ==
    << <<"# Terraform Refactor Report", ts>> >>
    \o [k \in 1..Len(chs) |->
           <<"## ", fs[chs[Len(chs) + 1 - k].file].path, chs[Len(chs) + 1 - k].diff>>]

\* lines 197-202: the header, then one section per change
BuildReport(ts, chs, fs) ==
    << <<"# Terraform Refactor Report", ts>> >>
    \o [k \in 1..Len(chs) |-> <<"## ", fs[chs[k].file].path, chs[k].diff>>]

\* lines 191-214: build the report and write it; a failed write is caught
WriteReport ==
    /\ pc = "report"
    /\ \E ts \in Timestamps : report' = BuildReport(ts, changes, files)
    /\ saved' \in {"saved", "failed"}
    /\ pc' = "done"
    /\ UNCHANGED <<files, changes, idx, suggestion, orig, answers, failed, trace>>
    /\ UNCHANGED outstanding
    /\ UNCHANGED <<dir, results, diffVars, tfVars>>

Next ==
    \/ ReadFiles
    \/ RefactorCall
    \/ ProviderSucceeds
    \/ ProviderFails
    \/ ComputeDiffAndRecord
    \/ AcceptChanges
    \/ SkipChanges
    \/ PromptCancelled
    \/ WriteReport

Spec == Init /\ [][Next]_vars

-----------------------------------------------------------------------------
(* analyzeAndRefactor of analyze.js *)

BatchInit ==
    /\ oldContent = <<>>
    /\ newContent = <<>>
    /\ oldLines = <<>>
    /\ newLines = <<>>
    /\ i = 0
    /\ j = 0
    /\ diffOutput = <<>>
    /\ dpc = "off"
    /\ reapplied = FALSE
    /\ dir = NoDir
    /\ files = <<>>
    /\ changes = <<>>
    /\ idx = 0
    /\ suggestion = NoValue
    /\ pc = "batchRead"
    /\ report = <<>>
    /\ saved = "none"
    /\ orig = <<>>
    /\ answers = <<>>
    /\ failed = {}
    /\ trace = <<>>
    /\ outstanding = {}
    /\ results = <<>>
    /\ TfIdle

\* analyze.js 10-16: load the files; return if there are none
BatchReadFiles ==
    /\ pc = "batchRead"
    /\ \E d \in Dirs :
          /\ dir' = d
          /\ files' = readTfFiles(d)
          /\ orig' = [k \in 1..Len(readTfFiles(d)) |-> readTfFiles(d)[k].content]
          /\ pc' = IF Len(readTfFiles(d)) = 0 THEN "done" ELSE "batchMap"
    /\ UNCHANGED <<changes, idx, suggestion, report, saved, answers, failed, trace,
                   outstanding, results>>
    /\ UNCHANGED <<diffVars, tfVars>>

\* analyze.js 21, files.map(f => refactorFile(f, prompt)): every call runs up
\* to its first await before Promise.all is awaited; a file with empty content
\* gets the marker at once, any other file has its askAmazonQ call started
BatchFanOut ==
    /\ pc = "batchMap"
    /\ results' = [k \in 1..Len(files) |->
                      IF files[k].content = <<>>
                      THEN SuggestionFor(files[k], ErrorMarker(MsgInvalidContent))
                      ELSE SuggestionFor(files[k], <<>>)]
    /\ outstanding' = { k \in 1..Len(files) : files[k].content # <<>> }
    /\ failed' = { k \in 1..Len(files) : files[k].content = <<>> }
    /\ trace' = [n \in 1..(2 * Len(files)) |->
                    LET k == (n + 1) \div 2
                    IN IF n % 2 = 1 THEN <<"refactorFile", k>>
                       ELSE IF files[k].content = <<>> THEN <<"suggestion", k>>
                       ELSE <<"askAmazonQ", k>>]
    /\ pc' = "batchAwait"
    /\ UNCHANGED <<dir, files, changes, idx, suggestion, report, saved, orig, answers>>
    /\ UNCHANGED <<diffVars, tfVars>>

\* refactor.js 106, 126-131: one of the started `q chat` calls printed stdout
BatchProviderSucceeds ==
    /\ pc = "batchAwait"
    /\ \E k \in outstanding, out \in Stdouts :
          /\ results' = [results EXCEPT ![k].suggestion = Trim(out)]
          /\ outstanding' = outstanding \ {k}
          /\ trace' = Append(trace, <<"suggestion", k>>)
    /\ UNCHANGED <<dir, files, changes, idx, suggestion, pc, report, saved, orig, answers,
                   failed>>
    /\ UNCHANGED <<diffVars, tfVars>>

\* refactor.js 132-138: one of the started askAmazonQ calls rejected
BatchProviderFails ==
    /\ pc = "batchAwait"
    /\ \E k \in outstanding, msg \in QFailures :
          /\ results' = [results EXCEPT ![k].suggestion = ErrorMarker(msg)]
          /\ outstanding' = outstanding \ {k}
          /\ failed' = failed \cup {k}
          /\ trace' = Append(trace, <<"suggestion", k>>)
    /\ UNCHANGED <<dir, files, changes, idx, suggestion, pc, report, saved, orig, answers>>
    /\ UNCHANGED <<diffVars, tfVars>>

\* analyze.js 25-36: the header, then one section per result, the suggestion
\* in an hcl code block when it is not empty
BatchReport(rs) ==
    << <<"# Terraform Refactor Report">> >>
    \o [k \in 1..Len(rs) |->
           IF rs[k].suggestion # <<>>
           THEN <<"## ", rs[k].path, "hcl", rs[k].suggestion>>
           ELSE <<"## ", rs[k].path, "Error during refactoring.">>]

\* analyze.js 21-44: Promise.all resolved; build the report and write it
BatchWriteReport ==
    /\ pc = "batchAwait"
    /\ outstanding = {}
    /\ report' = BatchReport(results)
    /\ saved' \in {"saved", "failed"}
    /\ pc' = "done"
    /\ UNCHANGED <<dir, files, changes, idx, suggestion, orig, answers, failed, trace,
                   outstanding, results>>
    /\ UNCHANGED <<diffVars, tfVars>>

BatchNext ==
    \/ BatchReadFiles
    \/ BatchFanOut
    \/ BatchProviderSucceeds
    \/ BatchProviderFails
    \/ BatchWriteReport

BatchSpec == BatchInit /\ [][BatchNext]_vars

-----------------------------------------------------------------------------
(* deployTerraform and destroyTerraform of index.js *)

\* index.js 553-559: the commands of deployTerraform, in array order
DeployCommands ==
    << "terraform fmt", "terraform init", "terraform validate", "terraform plan",
       "terraform apply -auto-approve" >>

\* index.js 620: the command of destroyTerraform
DestroyCommands == << "terraform destroy -auto-approve" >>

CommandsOf(op) == IF op = "deploy" THEN DeployCommands ELSE DestroyCommands

\* what `which terraform` can print: nothing, white space, or a path
WhichStdouts == { <<>>, <<NL>>, <<"/usr/bin/terraform", NL>> }

\* a confirm prompt is answered yes or no, or cancelled (its answer is then
\* missing from the object prompts resolves to)
PromptAnswers == { "yes", "no", "cancel" }

TfInit ==
    /\ oldContent = <<>>
    /\ newContent = <<>>
    /\ oldLines = <<>>
    /\ newLines = <<>>
    /\ i = 0
    /\ j = 0
    /\ diffOutput = <<>>
    /\ dpc = "off"
    /\ reapplied = FALSE
    /\ dir = NoDir
    /\ files = <<>>
    /\ changes = <<>>
    /\ idx = 0
    /\ suggestion = NoValue
    /\ pc = "off"
    /\ report = <<>>
    /\ saved = "none"
    /\ orig = <<>>
    /\ answers = <<>>
    /\ failed = {}
    /\ trace = <<>>
    /\ outstanding = {}
    /\ results = <<>>
    /\ tfOp = "none"
    /\ tfpc = "menu"
    /\ checkTerraform = FALSE
    /\ install = "none"
    /\ proceed = "none"
    /\ execLog = <<>>
    /\ ended = <<>>

\* index.js 671-680: the menu dispatches to deployTerraform or destroyTerraform
TfChoose ==
    /\ tfpc = "menu"
    /\ tfOp' \in {"deploy", "destroy"}
    /\ tfpc' = "check"
    /\ UNCHANGED <<checkTerraform, install, proceed, execLog, ended>>
    /\ UNCHANGED <<diffVars, sessVars>>

\* index.js 508-512, 577-581: terraform counts as installed when
\* `which terraform` printed something other than white space
TfCheckInstalled ==
    /\ tfpc = "check"
    /\ \E stdout \in WhichStdouts :
          /\ checkTerraform' = (stdout # <<>> /\ Len(Trim(stdout)) > 0)
          /\ tfpc' = IF stdout # <<>> /\ Len(Trim(stdout)) > 0
                     THEN "proceedPrompt" ELSE "installPrompt"
    /\ execLog' = Append(execLog, "which terraform")
    /\ UNCHANGED <<tfOp, install, proceed, ended>>
    /\ UNCHANGED <<diffVars, sessVars>>

\* index.js 514-537, 583-603: terraform is missing; on yes the install guide
\* is opened; the function returns in every case
TfInstallPrompt ==
    /\ tfpc = "installPrompt"
    /\ \E ans \in PromptAnswers :
          /\ install' = ans
          /\ execLog' = IF ans = "yes" THEN Append(execLog, "xdg-open") ELSE execLog
    /\ tfpc' = "done"
    /\ UNCHANGED <<tfOp, checkTerraform, proceed, ended>>
    /\ UNCHANGED <<diffVars, sessVars>>

\* TfProceedPrompt returning only when the answer is no
TfProceedPromptUnlessNo ==
    /\ tfpc = "proceedPrompt"
    /\ \E ans \in PromptAnswers :
          /\ proceed' = ans
          /\ tfpc' = IF ans # "no" THEN "run" ELSE "done"
    /\ UNCHANGED <<tfOp, checkTerraform, install, execLog, ended>>
    /\ UNCHANGED <<diffVars, sessVars>>

\* index.js 539-551, 605-617: `if (!proceed) return`; a cancelled prompt
\* leaves proceed undefined
TfProceedPrompt ==
    /\ tfpc = "proceedPrompt"
    /\ \E ans \in PromptAnswers :
          /\ proceed' = ans
          /\ tfpc' = IF ans = "yes" THEN "run" ELSE "done"
    /\ UNCHANGED <<tfOp, checkTerraform, install, execLog, ended>>
    /\ UNCHANGED <<diffVars, sessVars>>

\* index.js 561-564, 619-624: exec of the next command
TfStartCommand ==
    /\ tfpc = "run"
    /\ execLog' = Append(execLog, CommandsOf(tfOp)[Len(ended) + 1])
    /\ tfpc' = "running"
    /\ UNCHANGED <<tfOp, checkTerraform, install, proceed, ended>>
    /\ UNCHANGED <<diffVars, sessVars>>

\* TfCommandDone leaving the loop when the command failed
TfCommandDoneStopsOnError ==
    /\ tfpc = "running"
    /\ \E err \in BOOLEAN :
          /\ ended' = Append(ended, [cmd |-> CommandsOf(tfOp)[Len(ended) + 1], err |-> err])
          /\ tfpc' = IF err \/ Len(ended) + 1 = Len(CommandsOf(tfOp)) THEN "done" ELSE "run"
    /\ UNCHANGED <<tfOp, checkTerraform, install, proceed, execLog>>
    /\ UNCHANGED <<diffVars, sessVars>>

\* index.js 564-568, 624-628: the callback of exec resolves the awaited
\* promise whether or not err is set; the loop goes on to the next command
TfCommandDone ==
    /\ tfpc = "running"
    /\ \E err \in BOOLEAN :
          /\ ended' = Append(ended, [cmd |-> CommandsOf(tfOp)[Len(ended) + 1], err |-> err])
          /\ tfpc' = IF Len(ended) + 1 = Len(CommandsOf(tfOp)) THEN "done" ELSE "run"
    /\ UNCHANGED <<tfOp, checkTerraform, install, proceed, execLog>>
    /\ UNCHANGED <<diffVars, sessVars>>

TfNext ==
    \/ TfChoose
    \/ TfCheckInstalled
    \/ TfInstallPrompt
    \/ TfProceedPrompt
    \/ TfStartCommand
    \/ TfCommandDone

TfSpec == TfInit /\ [][TfNext]_vars

-----------------------------------------------------------------------------
(* Properties of formatDiff *)

\* the lines `lines`, each tagged `kind`
Tagged(kind, lines) == [k \in 1..Len(lines) |-> DiffLine(kind, lines[k])]

\* the texts of the lines of `out` whose kind is in `kinds`, in order
TextsOfKinds(out, kinds) ==
    LET sel == SelectSeq(out, LAMBDA d : d.kind \in kinds)
    IN [k \in 1..Len(sel) |-> sel[k].text]

CountKind(out, kind) == Len(SelectSeq(out, LAMBDA d : d.kind = kind))

\* the line sequence of a text when the empty text has zero lines
LinesEmptyIsNone(t) == IF t = <<>> THEN <<>> ELSE Split(t)

\* C1: the diff of (a, empty) is exactly one Removed line per line of a, in
\* order, and the diff of (empty, b) exactly one Added line per line of b, the
\* empty text counting as zero lines.
C1_EmptySideOnlyRemovedOrAdded ==
    dpc = "done" =>
        /\ newContent = <<>> =>
               diffOutput = Tagged("Removed", LinesEmptyIsNone(oldContent))
        /\ oldContent = <<>> =>
               diffOutput = Tagged("Added", LinesEmptyIsNone(newContent))

\* C2: the diff of (a, a) is one Unchanged line per line of a, in the order
\* of a; after the proposed content has been applied to the file, the diff of
\* the file's content against the proposed content is such a sequence.
C2_SelfDiffAllUnchanged ==
    /\ (reapplied /\ dpc # "idle") => oldContent = newContent
    /\ (dpc = "done" /\ oldContent = newContent) =>
           diffOutput = Tagged("Unchanged", Split(oldContent))

C2_Witness ==
    /\ dpc = "done"
    /\ reapplied
    /\ Len(diffOutput) = 3
    /\ \E k \in 1..3 : diffOutput[k].text = <<"x">>

Min(a, b) == IF a < b THEN a ELSE b

RECURSIVE PositionalPrefix(_, _, _)
\* the lines emitted for the indices 1..m that both inputs have
PositionalPrefix(oL, nL, m) ==
    IF m = 0 THEN <<>>
    ELSE PositionalPrefix(oL, nL, m - 1) \o
         (IF oL[m] = nL[m]
          THEN <<DiffLine("Unchanged", oL[m])>>
          ELSE <<DiffLine("Removed", oL[m]), DiffLine("Added", nL[m])>>)

\* the reference output, built index by index
PositionalDiff(oL, nL) ==
    LET m == Min(Len(oL), Len(nL))
    IN PositionalPrefix(oL, nL, m)
       \o Tagged("Removed", SubSeq(oL, m + 1, Len(oL)))
       \o Tagged("Added", SubSeq(nL, m + 1, Len(nL)))

ExampleOldABC == <<"a", NL, "b", NL, "c">>
ExampleNewAXC == <<"a", NL, "x", NL, "c">>
ExampleOldAB == <<"a", NL, "b">>
ExampleNewABC == <<"a", NL, "b", NL, "c">>

\* C3: the diff is positional: the output is the index-by-index reference,
\* the two cursors are equal whenever both are in range, and the two worked
\* examples come out as stated.
C3_DiffIsPositional ==
    /\ (dpc = "loop" /\ i < Len(oldLines) /\ j < Len(newLines)) => i = j
    /\ dpc = "done" =>
           /\ diffOutput = PositionalDiff(Split(oldContent), Split(newContent))
           /\ (oldContent = ExampleOldABC /\ newContent = ExampleNewAXC) =>
                  diffOutput = << DiffLine("Unchanged", <<"a">>),
                                  DiffLine("Removed", <<"b">>),
                                  DiffLine("Added", <<"x">>),
                                  DiffLine("Unchanged", <<"c">>) >>
           /\ (oldContent = ExampleOldAB /\ newContent = ExampleNewABC) =>
                  diffOutput = << DiffLine("Unchanged", <<"a">>),
                                  DiffLine("Unchanged", <<"b">>),
                                  DiffLine("Added", <<"c">>) >>

C3_Witness ==
    /\ dpc = "done"
    /\ oldContent = ExampleOldABC
    /\ newContent = ExampleNewAXC
    /\ Len(diffOutput) = 4

\* C4: the Unchanged and Removed lines, tags stripped, are the lines of old
\* in order; the Unchanged and Added lines are the lines of new in order; the
\* output has |old| + |new| - #Unchanged lines.
C4_DiffPreservesBothOrders ==
    dpc = "done" =>
        /\ TextsOfKinds(diffOutput, {"Unchanged", "Removed"}) = Split(oldContent)
        /\ TextsOfKinds(diffOutput, {"Unchanged", "Added"}) = Split(newContent)
        /\ Len(diffOutput) = Len(Split(oldContent)) + Len(Split(newContent))
                               - CountKind(diffOutput, "Unchanged")

C4_Witness ==
    /\ dpc = "done"
    /\ ~reapplied
    /\ CountKind(diffOutput, "Unchanged") = 1
    /\ CountKind(diffOutput, "Removed") = 2
    /\ CountKind(diffOutput, "Added") = 1

\* C5: every iteration advances at least one cursor, no cursor exceeds its
\* sequence length, the loop is left exactly when both cursors are at the end,
\* and the loop is left eventually.
C5_DiffLoopTerminates ==
    /\ [][ (dpc = "loop" /\ dpc' = "loop") =>
               /\ i' >= i
               /\ j' >= j
               /\ i' + j' > i + j ]_vars
    /\ [](dpc \in {"loop", "done"} => (i <= Len(oldLines) /\ j <= Len(newLines)))
    /\ [](dpc = "done" => (i = Len(oldLines) /\ j = Len(newLines)))
    /\ [][ (dpc = "loop" /\ i = Len(oldLines) /\ j = Len(newLines)) =>
               dpc' = "done" ]_vars
    /\ [](dpc = "loop" => <>(dpc = "done"))

C5_Witness ==
    /\ dpc = "done"
    /\ i = 3
    /\ j = 1
    /\ Len(diffOutput) = 3

-----------------------------------------------------------------------------
(* Properties of the session *)

IsPrefix(s, t) == Len(s) <= Len(t) /\ SubSeq(t, 1, Len(s)) = s

IsErrorMarker(text) == text # <<>> /\ Head(text) = "Error during refactoring: "

NoCancel == \A k \in 1..Len(answers) : answers[k] # "cancel"

\* the names of the steps taken for the file at position k, in order
StepsOf(k) ==
    LET sel == SelectSeq(trace, LAMBDA e : e[2] = k)
    IN [n \in 1..Len(sel) |-> sel[n][1]]

\* C6: in a session without interaction abort there is, at session end,
\* exactly one ChangeRecord per input file, in file order, whatever files had
\* a failing provider; a failure gives that file, and only that file, an
\* error-marker suggestion, and every file still gets its decision.
C6_OneRecordPerFile ==
    (pc = "done" /\ NoCancel) =>
        /\ Len(changes) = Len(files)
        /\ Len(answers) = Len(files)
        /\ \A k \in 1..Len(changes) :
              /\ changes[k].file = k
              /\ IsErrorMarker(changes[k].suggestion.suggestion) <=> k \in failed

C6_Witness ==
    /\ pc = "done"
    /\ NoCancel
    /\ Len(files) = 2
    /\ Len(changes) = 2
    /\ failed = {1}
    /\ orig[1] # <<>>

StepOrder(k, last) ==
    <<"refactorFile">>
    \o (IF orig[k] = <<>> THEN <<>> ELSE <<"askAmazonQ">>)
    \o <<"suggestion", "diff", "record", "prompt", last>>

C9_AbortHaltsSession ==
    \A k \in 1..Len(answers) :
        answers[k] = "cancel" =>
            /\ \A n \in 1..Len(trace) : trace[n][2] <= k
            /\ \A m \in (k + 1)..Len(files) : files[m].content = orig[m]

FirstCancel ==
    CHOOSE k \in 1..Len(answers) :
        answers[k] = "cancel" /\ \A m \in 1..(k - 1) : answers[m] # "cancel"

\* C10: after an interaction abort a report is produced that contains
\* exactly the ChangeRecords appended before the abort.
C10_AbortReportsPartialRecords ==
    (pc = "done" /\ ~NoCancel) =>
        /\ report # <<>>
        /\ Len(report) - 1 = FirstCancel
        /\ \A k \in 1..FirstCancel : report[k + 1][2] = files[k].path

C13_ReportOneSectionPerRecordInOrder ==
    (pc = "done" /\ Len(files) > 0) =>
        /\ Len(report) = Len(changes) + 1
        /\ report[1][1] = "# Terraform Refactor Report"
        /\ report[1][2] \in Timestamps
        /\ \A k \in 1..Len(changes) :
              /\ report[k + 1][1] = "## "
              /\ report[k + 1][2] = files[k].path
              /\ report[k + 1][3] = changes[k].diff
              /\ report[k + 1][3] = formatDiff(orig[k], changes[k].suggestion.suggestion)
        /\ \A k \in 1..(Len(changes) - 1) : report[k + 1][2] < report[k + 2][2]
        /\ report = BuildReport(report[1][2], changes, files)

C13_Witness ==
    /\ pc = "done"
    /\ Len(report) = 3
    /\ report[2][2] = 1
    /\ report[3][2] = 2
    /\ report[2][3] # report[3][3]

\* C14: when file discovery returns zero files the session produces no
\* ChangeRecord, requests no suggestion, prompts for no decision, and neither
\* builds nor writes a report.
C14_NoFilesNoWork ==
    (pc # "read" /\ Len(files) = 0) =>
        /\ pc = "done"
        /\ changes = <<>>
        /\ trace = <<>>
        /\ answers = <<>>
        /\ report = <<>>
        /\ saved = "none"

C14_Witness ==
    /\ pc = "done"
    /\ files = <<>>
    /\ dir.ok
    /\ Len(dir.entries) = 1
    /\ dir.entries[1].ext = ".txt"

\* C15: a file's content changes at most once per session and only by the
\* accept step of that file, which sets it to the proposed content; a skip
\* or cancelled prompt, the accept of another file, the suggestion request,
\* the diff and the report (saved or not) change no file's content.
C15_ContentChangedOnlyByOwnAccept ==
    [][ pc # "read" =>
            /\ Len(files') = Len(files)
            /\ \A k \in 1..Len(files) :
                  /\ files'[k].path = files[k].path
                  /\ files'[k].content # files[k].content =>
                        /\ pc = "prompt"
                        /\ idx = k
                        /\ answers' = Append(answers, "accept")
                        /\ files[k].content = orig[k]
                        /\ files'[k].content = suggestion.suggestion ]_vars

C15_Witness ==
    /\ pc = "done"
    /\ saved = "failed"
    /\ answers = <<"skip", "accept">>
    /\ files[1].content = orig[1]
    /\ files[1].content # changes[1].suggestion.suggestion
    /\ files[2].content # orig[2]

\* C18: refactorFile never raises: it returns the file's fields plus a
\* suggestion; for empty content the suggestion is the marker 'Error during
\* refactoring: File content is undefined or invalid' and the assistant is
\* not invoked; for any assistant failure it begins with 'Error during
\* refactoring: '.
C18_RefactorFileAlwaysReturns ==
    /\ pc = "awaitQ" => files[idx].content # <<>>
    /\ pc \in {"refactor", "awaitQ", "diff", "prompt"} =>
          Len(SelectSeq(trace, LAMBDA e : e[1] = "refactorFile"))
              = Len(SelectSeq(trace, LAMBDA e : e[1] = "suggestion"))
                + (IF pc = "awaitQ" THEN 1 ELSE 0)
    /\ pc = "diff" =>
          /\ DOMAIN suggestion = {"path", "content", "suggestion"}
          /\ suggestion.path = files[idx].path
          /\ suggestion.content = files[idx].content
          /\ files[idx].content = <<>> =>
                /\ suggestion.suggestion =
                       <<"Error during refactoring: ", "File content is undefined or invalid">>
                /\ \A n \in 1..Len(trace) : trace[n] # <<"askAmazonQ", idx>>
          /\ files[idx].content # <<>> =>
                \E n \in 1..Len(trace) : trace[n] = <<"askAmazonQ", idx>>
          /\ idx \in failed =>
                Head(suggestion.suggestion) = "Error during refactoring: "

C18_Witness ==
    /\ pc = "diff"
    /\ idx = 2
    /\ orig[1] # <<>>
    /\ 1 \in failed
    /\ orig[2] = <<>>
    /\ Len(suggestion.suggestion) = 2

\* the positions of the regular files of a listing whose name ends in .tf
TfPositions(es) ==
    SelectSeq([k \in 1..Len(es) |-> k],
              LAMBDA k : es[k].stat = "file" /\ es[k].ext = ".tf")

\* stat fails on some entry, or readFile on some regular .tf file
SomeEntryFails(es) ==
    \E k \in 1..Len(es) :
        \/ es[k].stat = "error"
        \/ es[k].stat = "file" /\ es[k].ext = ".tf" /\ ~es[k].readOk

\* C19: readTfFiles never raises; if listing the directory or stat-ing or
\* reading any entry fails it returns the empty list, the files already read
\* included, and the session processes nothing; otherwise it returns exactly
\* the regular files whose name ends in .tf, in directory-listing order.
C19_DiscoveryAllOrNothing ==
    pc # "read" =>
        IF ~dir.ok \/ SomeEntryFails(dir.entries)
        THEN /\ files = <<>>
             /\ pc = "done"
             /\ trace = <<>>
             /\ changes = <<>>
             /\ report = <<>>
        ELSE LET pos == TfPositions(dir.entries)
             IN /\ Len(files) = Len(pos)
                /\ \A n \in 1..Len(pos) :
                      /\ files[n].path = pos[n]
                      /\ orig[n] = dir.entries[pos[n]].content

C19_Witness ==
    /\ pc = "done"
    /\ dir.ok
    /\ Len(dir.entries) = 2
    /\ dir.entries[1] = DirEntry(".tf", "file", TRUE, <<"a">>)
    /\ dir.entries[2].stat = "error"
    /\ files = <<>>

\* C12: files are processed strictly one at a time: suggestion requests for
\* two files are never outstanding together, and the suggestion for a file is
\* requested only after the decision for the file before it has been applied
\* or skipped.
C12_OneFileAtATime ==
    /\ Cardinality(outstanding) <= 1
    /\ \A n \in 1..Len(trace) :
          (trace[n][1] = "refactorFile" /\ trace[n][2] > 1) =>
              \E m \in 1..(n - 1) :
                  /\ trace[m][2] = trace[n][2] - 1
                  /\ trace[m][1] \in {"apply", "skip"}

Range(s) == { s[k] : k \in 1..Len(s) }

\* the deploy and destroy commands among the commands executed so far
TerraformRuns ==
    SelectSeq(execLog, LAMBDA c : c \in (Range(DeployCommands) \cup Range(DestroyCommands)))

=============================================================================
